---- MODULE Spec2Model ----
(***************************************************************************)
(* Model of smartmeter-influxdb.py: the P1 telegram reader                 *)
(* (SmartMeter.read_one_packet), the telegram parser/validator (P1Packet)  *)
(* and the acquisition loop (start_monitor).                               *)
(*                                                                         *)
(* Bytes are one-character strings, byte strings are sequences of them.    *)
(* Python's None is the empty tuple <<>>, a float x is <<m>> where m is    *)
(* the value in thousandths (exact decimal arithmetic; binary rounding of  *)
(* floats is not modelled).                                                *)
(***************************************************************************)
EXTENDS Integers, Sequences, FiniteSets, TLC

VARIABLES
    pc,          \* position of start_monitor: "read", "validate", "extract", "send", "done"
    datagram,    \* read_one_packet: datagram (P1Packet._datagram once constructed)
    lines_read,  \* read_one_packet: lines_read
    startFound,  \* read_one_packet: startFound
    endFound,    \* read_one_packet: endFound
    parts,       \* history: the lines datagram was assembled from since its last reset
    transport,   \* outcome of the last serial.readline(): "idle", "line", "timeout", "raised"
    packet,      \* <<>> or <<keys>>: the P1Packet whose _keys have been assigned
    published,   \* the field mappings send_to_influxdb has written, in order
    serialOpen,  \* serial.isOpen()
    error        \* the exception that left start_monitor, "none" while it runs

vars == <<pc, datagram, lines_read, startFound, endFound, parts, transport,
          packet, published, serialOpen, error>>

(***************************************************************************)
(* Bounds of the model.                                                    *)
(***************************************************************************)
\* lines one read_one_packet call may read in the specification Spec
MaxRead == 9
\* lines one read_one_packet call may read in the specification SpecFraming
MaxReadLong == 37
\* lines accumulated before any header line
MaxGarbage == 2
\* records published before the model stops acquiring
MaxPackets == 2

(***************************************************************************)
(* Program constants.                                                      *)
(***************************************************************************)
max_lines == 35

(***************************************************************************)
(* Bytes.                                                                  *)
(***************************************************************************)
None == <<>>

Some(v) == <<v>>

Digits == {"0", "1", "2", "3", "4", "5", "6", "7", "8", "9"}

\* bytes.strip()/lstrip() without argument strip ASCII whitespace
Whitespace == {" ", "\t", "\n", "\r"}

Ord(c) ==
    CASE c = "\t" -> 9   [] c = "\n" -> 10  [] c = "\r" -> 13  [] c = " " -> 32
      [] c = "!" -> 33   [] c = "(" -> 40   [] c = ")" -> 41   [] c = "*" -> 42
      [] c = "-" -> 45   [] c = "." -> 46   [] c = "/" -> 47
      [] c = "0" -> 48   [] c = "1" -> 49   [] c = "2" -> 50   [] c = "3" -> 51
      [] c = "4" -> 52   [] c = "5" -> 53   [] c = "6" -> 54   [] c = "7" -> 55
      [] c = "8" -> 56   [] c = "9" -> 57   [] c = ":" -> 58
      [] c = "A" -> 65   [] c = "B" -> 66   [] c = "C" -> 67   [] c = "D" -> 68
      [] c = "E" -> 69   [] c = "F" -> 70   [] c = "G" -> 71   [] c = "H" -> 72
      [] c = "S" -> 83   [] c = "V" -> 86   [] c = "W" -> 87   [] c = "Z" -> 90
      [] c = "h" -> 104  [] c = "k" -> 107  [] c = "m" -> 109  [] c = "x" -> 120

RECURSIVE lstrip(_)
lstrip(s) ==
    IF s # <<>> /\ Head(s) \in Whitespace THEN lstrip(Tail(s)) ELSE s

RECURSIVE rstrip(_)
rstrip(s) ==
    IF s # <<>> /\ s[Len(s)] \in Whitespace THEN rstrip(SubSeq(s, 1, Len(s) - 1)) ELSE s

strip(s) == rstrip(lstrip(s))

\* the literal lit occurs in d at position i
LitAt(d, i, lit) ==
    /\ i >= 1
    /\ i + Len(lit) - 1 <= Len(d)
    /\ \A j \in 1..Len(lit) : d[i + j - 1] = lit[j]

\* the position after the longest run of digits of d that starts at i
RECURSIVE DigitsEnd(_, _)
DigitsEnd(d, i) ==
    IF i <= Len(d) /\ d[i] \in Digits THEN DigitsEnd(d, i + 1) ELSE i

(***************************************************************************)
(* crc16 = crcmod.predefined.mkPredefinedCrcFun('crc16'): CRC-16/ARC,      *)
(* polynomial 0x8005 reflected (0xA001), initial value 0, no final xor.    *)
(***************************************************************************)
\* bit k of v
Bit(v, k) == (v \div (2 ^ k)) % 2

\* v with bit k inverted
Flip(v, k) == IF Bit(v, k) = 1 THEN v - 2 ^ k ELSE v + 2 ^ k

\* crc ^ b for a byte b
XorByte(crc, b) ==
    (crc \div 256) * 256
    + ((Bit(crc, 0) + Bit(b, 0)) % 2)
    + 2 * ((Bit(crc, 1) + Bit(b, 1)) % 2)
    + 4 * ((Bit(crc, 2) + Bit(b, 2)) % 2)
    + 8 * ((Bit(crc, 3) + Bit(b, 3)) % 2)
    + 16 * ((Bit(crc, 4) + Bit(b, 4)) % 2)
    + 32 * ((Bit(crc, 5) + Bit(b, 5)) % 2)
    + 64 * ((Bit(crc, 6) + Bit(b, 6)) % 2)
    + 128 * ((Bit(crc, 7) + Bit(b, 7)) % 2)

\* one bit of the reflected division: crc >> 1, xor 0xA001 when a 1 was shifted out
CrcShift[crc \in Nat] ==
    IF crc % 2 = 1 THEN Flip(Flip(Flip(crc \div 2, 0), 13), 15) ELSE crc \div 2

\* one byte of the reflected division
CrcByte[crc \in Nat] ==
    CrcShift[CrcShift[CrcShift[CrcShift[CrcShift[CrcShift[CrcShift[CrcShift[crc]]]]]]]]

\* the bytes of d are folded in from left to right; the fold is split in halves,
\* the left half first, to keep the evaluation shallow
crc16(d) ==
    LET fold[t \in Nat \X Nat \X Nat] ==
            IF t[1] > t[2] THEN t[3]
            ELSE IF t[1] = t[2] THEN CrcByte[XorByte(t[3], Ord(d[t[1]]))]
            ELSE LET mid == (t[1] + t[2]) \div 2
                 IN  fold[<<mid + 1, t[2], fold[<<t[1], mid, t[3]>>]>>]
    IN  fold[<<1, Len(d), 0>>]

(***************************************************************************)
(* int('0x' + text, 16)                                                    *)
(***************************************************************************)
HexDigits == Digits \cup {"A", "B", "C", "D", "E", "F"}

HexVal(c) == IF c \in Digits THEN Ord(c) - 48 ELSE Ord(c) - 55

RECURSIVE HexInt(_, _)
HexInt(text, acc) ==
    IF text = <<>> THEN acc ELSE HexInt(Tail(text), 16 * acc + HexVal(Head(text)))

\* <<value>>, or None where int() raises ValueError
ParseHex(text) ==
    IF text # <<>> /\ \A i \in 1..Len(text) : text[i] \in HexDigits
    THEN Some(HexInt(text, 0))
    ELSE None

(***************************************************************************)
(* P1Packet: the field patterns of __init__, get, get_float, validate.     *)
(***************************************************************************)
\* b'^1-0:<code>\(([0-9]+\.[0-9]+)\*<unit>\)\r\n'
Obis(code, unit) ==
    [pre |-> <<"1", "-", "0", ":">> \o code \o <<"(">>,
     suf |-> <<"*">> \o unit \o <<")", "\r", "\n">>]

kWh == <<"k", "W", "h">>

kW == <<"k", "W">>

Volt == <<"V">>

FieldNames ==
    {"+T1", "-T1", "+T2", "-T2", "+P", "-P", "V_1", "V_2", "V_3",
     "+P_1", "+P_2", "+P_3", "-P_1", "-P_2", "-P_3"}

KeyNames == FieldNames \cup {"+T", "-T", "P", "G"}

FieldPattern(k) ==
    CASE k = "+T1"  -> Obis(<<"1", ".", "8", ".", "1">>, kWh)
      [] k = "-T1"  -> Obis(<<"2", ".", "8", ".", "1">>, kWh)
      [] k = "+T2"  -> Obis(<<"1", ".", "8", ".", "2">>, kWh)
      [] k = "-T2"  -> Obis(<<"2", ".", "8", ".", "2">>, kWh)
      [] k = "+P"   -> Obis(<<"1", ".", "7", ".", "0">>, kW)
      [] k = "-P"   -> Obis(<<"2", ".", "7", ".", "0">>, kW)
      [] k = "V_1"  -> Obis(<<"3", "2", ".", "7", ".", "0">>, Volt)
      [] k = "V_2"  -> Obis(<<"5", "2", ".", "7", ".", "0">>, Volt)
      [] k = "V_3"  -> Obis(<<"7", "2", ".", "7", ".", "0">>, Volt)
      [] k = "+P_1" -> Obis(<<"2", "1", ".", "7", ".", "0">>, kW)
      [] k = "+P_2" -> Obis(<<"4", "1", ".", "7", ".", "0">>, kW)
      [] k = "+P_3" -> Obis(<<"6", "1", ".", "7", ".", "0">>, kW)
      [] k = "-P_1" -> Obis(<<"2", "2", ".", "7", ".", "0">>, kW)
      [] k = "-P_2" -> Obis(<<"4", "2", ".", "7", ".", "0">>, kW)
      [] k = "-P_3" -> Obis(<<"6", "2", ".", "7", ".", "0">>, kW)

\* re.MULTILINE: ^ matches at the start of the string and after each newline
LineStarts(d) == {1} \cup {i + 1 : i \in {j \in 1..Len(d) : d[j] = "\n"}}

\* [0-9]+\.[0-9]+ matched at i: <<i, position after the match>>, or None
NumberAt(d, i) ==
    LET a == DigitsEnd(d, i)
        b == DigitsEnd(d, a + 1)
    IN  IF a > i /\ a <= Len(d) /\ d[a] = "." /\ b > a + 1 THEN <<i, b>> ELSE None

\* the capture of the pattern pat matched at line start i, or None
ObisAt(d, i, pat) ==
    IF ~LitAt(d, i, pat.pre) THEN None
    ELSE LET n == NumberAt(d, i + Len(pat.pre))
         IN  IF n # None /\ LitAt(d, n[2], pat.suf)
             THEN SubSeq(d, n[1], n[2] - 1)
             ELSE None

\* P1Packet.get(regex, None) for an OBIS pattern: the capture of the first match
get(d, pat) ==
    LET hits == {i \in LineStarts(d) : ObisAt(d, i, pat) # None}
    IN  IF hits = {} THEN None
        ELSE ObisAt(d, CHOOSE i \in hits : \A j \in hits : i <= j, pat)

GasCode == <<"0", "-", "1", ":", "2", "4", ".", "2", ".", "1">>

\* \(([0-9]{6}\.[0-9]{2})(?:\*m3)?\)\r\n matched at i: the capture, or None
GasValueAt(d, i) ==
    IF /\ LitAt(d, i, <<"(">>)
       /\ DigitsEnd(d, i + 1) >= i + 7
       /\ LitAt(d, i + 7, <<".">>)
       /\ DigitsEnd(d, i + 8) >= i + 10
       /\ \/ LitAt(d, i + 10, <<"*", "m", "3", ")", "\r", "\n">>)
          \/ LitAt(d, i + 10, <<")", "\r", "\n">>)
    THEN SubSeq(d, i + 1, i + 9)
    ELSE None

\* (?:\(\d+[SW]\))? matched at i: the position after it when present, else 0
GasStampEnd(d, i) ==
    LET e == DigitsEnd(d, i + 1)
    IN  IF /\ LitAt(d, i, <<"(">>)
           /\ e > i + 1
           /\ e + 1 <= Len(d)
           /\ d[e] \in {"S", "W"}
           /\ d[e + 1] = ")"
        THEN e + 2
        ELSE 0

\* the gas pattern of line 119 matched at line start i: the capture, or None
GasAt(d, i) ==
    LET afterCode  == i + Len(GasCode)
        afterStamp == GasStampEnd(d, afterCode)
    IN  IF LitAt(d, i, GasCode) /\ afterStamp # 0 /\ GasValueAt(d, afterStamp) # None
        THEN GasValueAt(d, afterStamp)
        ELSE IF LitAt(d, i, GasCode) /\ GasValueAt(d, afterCode) # None
        THEN GasValueAt(d, afterCode)
        ELSE GasValueAt(d, i)

\* P1Packet.get(regex, None) for the gas pattern
getGas(d) ==
    LET hits == {i \in LineStarts(d) : GasAt(d, i) # None}
    IN  IF hits = {} THEN None
        ELSE GasAt(d, CHOOSE i \in hits : \A j \in hits : i <= j)

RECURSIVE DecInt(_, _)
DecInt(text, acc) ==
    IF text = <<>> THEN acc ELSE DecInt(Tail(text), 10 * acc + (Ord(Head(text)) - 48))

\* float(text) for text of the form [0-9]+\.[0-9]+, in thousandths
float(text) ==
    LET dot  == DigitsEnd(text, 1)
        frac == SubSeq(text, dot + 1, Len(text)) \o <<"0", "0", "0">>
    IN  1000 * DecInt(SubSeq(text, 1, dot - 1), 0) + DecInt(SubSeq(frac, 1, 3), 0)

\* get_float returning None for an absent field whatever default it is given
get_float_nodefault(result, default) ==
    IF result = None THEN None ELSE Some(float(result))

\* P1Packet.get_float(regex, default), result being self.get(regex, None)
get_float(result, default) ==
    IF result = None THEN default ELSE Some(float(result))

\* the positions of '!' preceded by CR LF: the matches of b'\r\n(?=!)'
Boundaries(d) == {p \in 3..Len(d) : d[p - 2] = "\r" /\ d[p - 1] = "\n" /\ d[p] = "!"}

\* validate keeping the first match of its for loop instead of the last
LastBoundary_first(d) == CHOOSE p \in Boundaries(d) : \A q \in Boundaries(d) : p <= q

\* the boundary validate is left with after its for loop: the last match
LastBoundary(d) == CHOOSE p \in Boundaries(d) : \A q \in Boundaries(d) : q <= p

\* packet = self._datagram[:match.end() + 1]
Packet(d) == SubSeq(d, 1, LastBoundary(d))

\* checksum = self._datagram[match.end() + 1:]
Checksum(d) == SubSeq(d, LastBoundary(d) + 1, Len(d))

\* validate without the comparison of lines 154-155
validate_uncompared(d) ==
    IF Boundaries(d) = {} THEN "UnboundLocalError"
    ELSE IF strip(Checksum(d)) = <<>> THEN "ok"
    ELSE IF ParseHex(strip(Checksum(d))) = None THEN "ValueError"
    ELSE "ok"

\* validate testing the trailer remainder of line 150 without strip()
validate_unstripped(d) ==
    IF Boundaries(d) = {} THEN "UnboundLocalError"
    ELSE IF Checksum(d) = <<>> THEN "ok"
    ELSE IF ParseHex(strip(Checksum(d))) = None THEN "ValueError"
    ELSE IF ParseHex(strip(Checksum(d)))[1] # crc16(Packet(d)) THEN "P1PacketError"
    ELSE "ok"

\* P1Packet.validate: "ok" when it returns, else the exception it raises
validate(d) ==
    IF Boundaries(d) = {} THEN "UnboundLocalError"
    ELSE IF strip(Checksum(d)) = <<>> THEN "ok"
    ELSE IF ParseHex(strip(Checksum(d))) = None THEN "ValueError"
    ELSE IF ParseHex(strip(Checksum(d)))[1] # crc16(Packet(d)) THEN "P1PacketError"
    ELSE "ok"

\* keys after lines 94-113
Extracted(d) == [k \in FieldNames |-> get_float(get(d, FieldPattern(k)), None)]

\* an operand of lines 115-117 is None: + or - raises TypeError
DerivedRaises(e) ==
    \E k \in {"+T1", "+T2", "-T1", "-T2", "+P", "-P"} : e[k] = None

\* self._keys of line 121, when lines 115-117 raise nothing
Keys(d) ==
    LET e == Extracted(d)
    IN  [k \in KeyNames |->
            CASE k = "+T" -> Some(e["+T1"][1] + e["+T2"][1])
              [] k = "-T" -> Some(e["-T1"][1] + e["-T2"][1])
              [] k = "P"  -> Some(e["+P"][1] - e["-P"][1])
              [] k = "G"  -> get_float(getGas(d), Some(0))
              [] OTHER    -> e[k]]

(***************************************************************************)
(* The transport: what serial.readline() can deliver.                      *)
(***************************************************************************)
HeaderPlain == <<"/", "H", "\r", "\n">>

\* whitespace before the marker
HeaderSpaced == <<" ", "/", "H", "\r", "\n">>

\* another byte before the marker: the line begins with the trailer marker
HeaderBang == <<"!", "/", "H", "\r", "\n">>

HeaderLines == {HeaderPlain, HeaderSpaced, HeaderBang}

\* the data lines of a telegram, in the order the meter sends them
TelegramLines ==
    << <<"1", "-", "0", ":", "1", ".", "8", ".", "1", "(", "1", ".", "5", "*", "k", "W", "h", ")", "\r", "\n">>,
       <<"1", "-", "0", ":", "1", ".", "8", ".", "2", "(", "2", ".", "2", "5", "*", "k", "W", "h", ")", "\r", "\n">>,
       <<"1", "-", "0", ":", "2", ".", "8", ".", "1", "(", "0", ".", "5", "*", "k", "W", "h", ")", "\r", "\n">>,
       <<"1", "-", "0", ":", "2", ".", "8", ".", "2", "(", "0", ".", "1", "2", "5", "*", "k", "W", "h", ")", "\r", "\n">>,
       <<"1", "-", "0", ":", "1", ".", "7", ".", "0", "(", "3", ".", "0", "*", "k", "W", ")", "\r", "\n">>,
       <<"1", "-", "0", ":", "2", ".", "7", ".", "0", "(", "0", ".", "7", "5", "*", "k", "W", ")", "\r", "\n">>,
       <<"0", "-", "1", ":", "2", "4", ".", "2", ".", "1", "(", "0", "0", "0", "0", "1", "2", ".", "3", "4", "*", "m", "3", ")", "\r", "\n">> >>

DataLines == {TelegramLines[i] : i \in 1..Len(TelegramLines)}

\* a line that is neither header nor trailer and matches no field pattern
NoiseLine == <<"x", "\r", "\n">>

\* trailer without checksum
TrailerUnsigned == <<"!", "\r", "\n">>

\* trailer signing the telegram HeaderPlain alone
TrailerMinimal == <<"!", "1", "D", "9", "5", "\r", "\n">>

\* trailer signing HeaderPlain followed by the first six data lines
TrailerSix == <<"!", "1", "1", "5", "3", "\r", "\n">>

\* trailer whose checksum text is not hexadecimal
TrailerGarbled == <<"!", "Z", "\r", "\n">>

TrailerLines == {TrailerUnsigned, TrailerMinimal, TrailerSix, TrailerGarbled}

\* what readline() returns when its timeout expires: the bytes received so far
PartialReads == {<<>>, <<"x">>}

\* the lines of the specification Spec
Lines == HeaderLines \cup DataLines \cup TrailerLines

\* the lines of the specification SpecFraming
FramingLines == {HeaderPlain, NoiseLine, TrailerUnsigned}

\* position of a line in the telegram order; partial reads come last
Rank(line) ==
    IF line \in DataLines THEN CHOOSE i \in 1..Len(TelegramLines) : TelegramLines[i] = line
    ELSE IF line = <<"x">> THEN Len(TelegramLines) + 1
    ELSE 0

(***************************************************************************)
(* SmartMeter.read_one_packet                                              *)
(***************************************************************************)
\* re.match(b'.*(?=/)', line): '.' matches every byte but the newline
IsHeader(line) ==
    \E i \in 1..Len(line) : line[i] = "/" /\ \A j \in 1..(i - 1) : line[j] # "\n"

\* re.match(b'(?=!)', line)
IsTrailer(line) == line # <<>> /\ line[1] = "!"

\* the locals of read_one_packet after lines 47-50
Locals0 ==
    [datagram |-> <<>>, lines_read |-> 0, startFound |-> FALSE, endFound |-> FALSE,
     parts |-> <<>>]

\* parts with one more line (empty reads leave no trace in the datagram)
Joined(ps, line) == IF line = <<>> THEN ps ELSE Append(ps, line)

\* the loop body with a header branch that appends instead of starting over
LoopBody_appending(l, line) ==
    IF IsHeader(line)
    THEN [datagram |-> l.datagram \o lstrip(line), lines_read |-> l.lines_read + 1,
          startFound |-> TRUE, endFound |-> FALSE,
          parts |-> Joined(l.parts, lstrip(line))]
    ELSE IF IsTrailer(line)
    THEN [datagram |-> l.datagram \o line, lines_read |-> l.lines_read + 1,
          startFound |-> l.startFound, endFound |-> TRUE,
          parts |-> Joined(l.parts, line)]
    ELSE [datagram |-> l.datagram \o line, lines_read |-> l.lines_read + 1,
          startFound |-> l.startFound, endFound |-> l.endFound,
          parts |-> Joined(l.parts, line)]

\* the loop body testing for the trailer marker before the header marker
LoopBody_trailer_first(l, line) ==
    IF IsTrailer(line)
    THEN [datagram |-> l.datagram \o line, lines_read |-> l.lines_read + 1,
          startFound |-> l.startFound, endFound |-> TRUE,
          parts |-> Joined(l.parts, line)]
    ELSE IF IsHeader(line)
    THEN [datagram |-> lstrip(line), lines_read |-> l.lines_read + 1,
          startFound |-> TRUE, endFound |-> FALSE, parts |-> <<lstrip(line)>>]
    ELSE [datagram |-> l.datagram \o line, lines_read |-> l.lines_read + 1,
          startFound |-> l.startFound, endFound |-> l.endFound,
          parts |-> Joined(l.parts, line)]

\* the loop body appending body lines without their line terminator
LoopBody_stripping(l, line) ==
    IF IsHeader(line)
    THEN [datagram |-> lstrip(line), lines_read |-> l.lines_read + 1,
          startFound |-> TRUE, endFound |-> FALSE, parts |-> <<lstrip(line)>>]
    ELSE IF IsTrailer(line)
    THEN [datagram |-> l.datagram \o line, lines_read |-> l.lines_read + 1,
          startFound |-> l.startFound, endFound |-> TRUE,
          parts |-> Joined(l.parts, line)]
    ELSE [datagram |-> l.datagram \o rstrip(line), lines_read |-> l.lines_read + 1,
          startFound |-> l.startFound, endFound |-> l.endFound,
          parts |-> Joined(l.parts, line)]

\* one iteration of the while loop, lines 59-69, on the line just read
LoopBody(l, line) ==
    IF IsHeader(line)
    THEN [datagram |-> lstrip(line), lines_read |-> l.lines_read + 1,
          startFound |-> TRUE, endFound |-> FALSE, parts |-> <<lstrip(line)>>]
    ELSE IF IsTrailer(line)
    THEN [datagram |-> l.datagram \o line, lines_read |-> l.lines_read + 1,
          startFound |-> l.startFound, endFound |-> TRUE,
          parts |-> Joined(l.parts, line)]
    ELSE [datagram |-> l.datagram \o line, lines_read |-> l.lines_read + 1,
          startFound |-> l.startFound, endFound |-> l.endFound,
          parts |-> Joined(l.parts, line)]

\* a while loop that ends on any trailer line, header seen or not
LoopContinues_until_trailer(l) == ~l.endFound

\* the condition of the while loop, line 53
LoopContinues(l) == ~l.startFound \/ ~l.endFound

Locals ==
    [datagram |-> datagram, lines_read |-> lines_read, startFound |-> startFound,
     endFound |-> endFound, parts |-> parts]

SetLocals(l) ==
    /\ datagram' = l.datagram
    /\ lines_read' = l.lines_read
    /\ startFound' = l.startFound
    /\ endFound' = l.endFound
    /\ parts' = l.parts

\* the lines the transport may deliver next (bounds the model's streams)
Deliverable(line) ==
    \/ IsHeader(line)
    \/ line = <<>>
    \/ ~startFound /\ Len(parts) < MaxGarbage
    \/ startFound /\ IsTrailer(line)
    \/ startFound /\ line = NoiseLine
    \/ startFound /\ Rank(line) > 0 /\ \A i \in 1..Len(parts) : Rank(parts[i]) < Rank(line)

(***************************************************************************)
(* start_monitor                                                           *)
(***************************************************************************)
\* an exception leaving start_monitor without the finally clause
Raise_undisconnected(e) ==
    /\ pc' = "done"
    /\ error' = e
    /\ serialOpen' = serialOpen
    /\ SetLocals(Locals0)
    /\ packet' = <<>>

\* an exception leaves the while loop of start_monitor: finally, disconnect
Raise(e) ==
    /\ pc' = "done"
    /\ error' = e
    /\ serialOpen' = FALSE
    /\ SetLocals(Locals0)
    /\ packet' = <<>>

Init ==
    /\ pc = "call"
    /\ datagram = <<>>
    /\ lines_read = 0
    /\ startFound = FALSE
    /\ endFound = FALSE
    /\ parts = <<>>
    /\ transport = "idle"
    /\ packet = <<>>
    /\ published = <<>>
    /\ serialOpen = TRUE
    /\ error = "none"

\* read_one_packet keeping its accumulator, counter and flags between calls
Call_stale ==
    /\ pc = "call"
    /\ Len(published) < MaxPackets
    /\ pc' = "read"
    /\ packet' = <<>>
    /\ UNCHANGED <<datagram, lines_read, startFound, endFound, parts, transport,
                   published, serialOpen, error>>

\* line 192: meter.read_one_packet() is entered, lines 47-51
Call ==
    /\ pc = "call"
    /\ Len(published) < MaxPackets
    /\ pc' = "read"
    /\ SetLocals(Locals0)
    /\ packet' = <<>>
    /\ UNCHANGED <<transport, published, serialOpen, error>>

\* lines 53-69 with the line readline() returned
Iterate(line, outcome) ==
    LET l == LoopBody(Locals, line)
    IN  /\ SetLocals(l)
        /\ transport' = outcome
        /\ pc' = IF LoopContinues(l) THEN "read" ELSE "validate"
        /\ UNCHANGED <<packet, published, serialOpen, error>>

\* readline() returns a complete line
ReadLine(lineSet, cap) ==
    /\ pc = "read"
    /\ lines_read < cap
    /\ \E line \in lineSet : Deliverable(line) /\ Iterate(line, "line")

\* readline() returns at its timeout with the bytes received so far
ReadTimeout(cap) ==
    /\ pc = "read"
    /\ lines_read < cap
    /\ \E line \in PartialReads : Deliverable(line) /\ Iterate(line, "timeout")

\* readline() raises and the loop carries on with what it has accumulated
ReadRaises_swallowed ==
    /\ pc = "read"
    /\ transport' = "raised"
    /\ UNCHANGED <<pc, datagram, lines_read, startFound, endFound, parts, packet,
                   published, serialOpen, error>>

\* readline() raises: lines 56-57
ReadRaises ==
    /\ pc = "read"
    /\ transport' = "raised"
    /\ Raise("SmartMeterError")
    /\ UNCHANGED published

\* line 73, P1Packet.__init__ lines 88-90
Validate ==
    /\ pc = "validate"
    /\ IF validate(datagram) = "ok"
       THEN /\ pc' = "extract"
            /\ UNCHANGED <<datagram, lines_read, startFound, endFound, parts,
                           packet, serialOpen, error>>
       ELSE Raise(validate(datagram))
    /\ UNCHANGED <<transport, published>>

\* P1Packet.__init__ lines 92-121
Extract ==
    /\ pc = "extract"
    /\ IF DerivedRaises(Extracted(datagram))
       THEN Raise("TypeError")
       ELSE /\ pc' = "send"
            /\ packet' = <<Keys(datagram)>>
            /\ UNCHANGED <<datagram, lines_read, startFound, endFound, parts,
                           serialOpen, error>>
    /\ UNCHANGED <<transport, published>>

\* send_to_influxdb lines 173-175: the fields that are not None
Fields(keys) == [k \in {n \in KeyNames : keys[n] # None} |-> keys[k]]

\* send_to_influxdb writing the record of one frame twice
Send_repeated ==
    /\ pc = "send"
    /\ published' = Append(Append(published, Fields(packet[1])), Fields(packet[1]))
    /\ pc' = "call"
    /\ UNCHANGED <<datagram, lines_read, startFound, endFound, parts, transport,
                   packet, serialOpen, error>>

\* line 193, write_points returns
Send ==
    /\ pc = "send"
    /\ published' = Append(published, Fields(packet[1]))
    /\ pc' = "call"
    /\ UNCHANGED <<datagram, lines_read, startFound, endFound, parts, transport,
                   packet, serialOpen, error>>

\* line 193, the InfluxDB client raises
SendRaises ==
    /\ pc = "send"
    /\ Raise("InfluxDBError")
    /\ UNCHANGED <<transport, published>>

Next ==
    \/ Call
    \/ ReadLine(Lines, MaxRead)
    \/ ReadTimeout(MaxRead)
    \/ ReadRaises
    \/ Validate
    \/ Extract
    \/ Send
    \/ SendRaises

Spec == Init /\ [][Next]_vars

\* the same program on long streams of framing lines
NextFraming ==
    \/ Call
    \/ ReadLine(FramingLines, MaxReadLong)
    \/ ReadTimeout(MaxReadLong)
    \/ ReadRaises
    \/ Validate
    \/ Extract

SpecFraming == Init /\ [][NextFraming]_vars

\* P1Packet(datagram) on datagrams given directly to the constructor, among
\* them datagrams with more than one CR LF '!' sequence
TrailerDouble == <<"!", "0", "7", "4", "E", "\r", "\n">>

BodySix ==
    TelegramLines[1] \o TelegramLines[2] \o TelegramLines[3] \o TelegramLines[4]
        \o TelegramLines[5] \o TelegramLines[6]

Bodies == {<<>>, BodySix, BodySix \o TelegramLines[7]}

SyntheticFrames ==
    {h \o b \o t1 \o t2 :
        h \in {HeaderPlain, HeaderBang}, b \in Bodies,
        t1 \in {<<>>, <<"x">>} \cup TrailerLines,
        t2 \in TrailerLines \cup {TrailerDouble}}

InitPacket ==
    /\ pc = "validate"
    /\ datagram \in SyntheticFrames
    /\ lines_read = 0
    /\ startFound = FALSE
    /\ endFound = FALSE
    /\ parts = <<>>
    /\ transport = "idle"
    /\ packet = <<>>
    /\ published = <<>>
    /\ serialOpen = TRUE
    /\ error = "none"

NextPacket ==
    \/ Validate
    \/ Extract

SpecPacket == InitPacket /\ [][NextPacket]_vars

(***************************************************************************)
(* Properties.                                                             *)
(***************************************************************************)
\* the frame has been handed to P1Packet
Handed == pc \in {"validate", "extract", "send"}

RECURSIVE Flatten(_)
Flatten(ps) == IF ps = <<>> THEN <<>> ELSE Head(ps) \o Flatten(Tail(ps))

\* the per-frame failures of acquisition and parsing
FrameErrors ==
    {"SmartMeterError", "FrameOverflowError", "P1PacketError", "UnboundLocalError",
     "ValueError", "TypeError"}

\* the trailer of d carries hexadecimal digits
Signed(d) == Boundaries(d) # {} /\ ParseHex(strip(Checksum(d))) # None

\* the digits the trailer of d carries are the CRC-16 of its checksummed region
ChecksumMatches(d) == ParseHex(strip(Checksum(d)))[1] = crc16(Packet(d))

OrZero(v) == IF v = None THEN 0 ELSE v[1]

\* C1: a call of read_one_packet that has read more than 35 lines without
\* completing a frame has ended with an error; it is never still reading.
C1_LineBoundEnforced == pc = "read" => lines_read <= max_lines

\* C2: constructing P1Packet from a validated frame never fails, and its
\* record has +T = +T1 + +T2, -T = -T1 + -T2, P = +P - -P with 0 for every
\* absent operand.
C2_DerivedFieldsWithZero ==
    [][pc = "extract" =>
          LET e == Extracted(datagram)
          IN  /\ pc' = "send"
              /\ packet' # <<>>
              /\ packet'[1]["+T"] = Some(OrZero(e["+T1"]) + OrZero(e["+T2"]))
              /\ packet'[1]["-T"] = Some(OrZero(e["-T1"]) + OrZero(e["-T2"]))
              /\ packet'[1]["P"] = Some(OrZero(e["+P"]) - OrZero(e["-P"]))]_vars

\* the declared field k has no matching line in d
Absent(d, k) == IF k = "G" THEN getGas(d) = None ELSE get(d, FieldPattern(k)) = None

\* C3: for every declared field with no matching line in a validated frame,
\* construction succeeds and the record reports the field as None.
C3_AbsentFieldIsNone ==
    [][\A k \in FieldNames \cup {"G"} :
          (pc = "extract" /\ Absent(datagram, k)) =>
              (pc' = "send" /\ packet' # <<>> /\ packet'[1][k] = None)]_vars

\* C4: a frame whose trailer carries hex digits goes on to extraction when
\* they equal the CRC-16 of the checksummed region and is rejected with
\* P1PacketError, no record created and nothing published, when they differ;
\* extraction is entered from validation only and a record is created by
\* extraction only.
C4_ChecksumBeforeExtraction ==
    [][/\ (pc = "validate" /\ Signed(datagram) /\ ChecksumMatches(datagram)) =>
              (pc' = "extract" /\ error' = "none" /\ datagram' = datagram)
       /\ (pc = "validate" /\ Signed(datagram) /\ ~ChecksumMatches(datagram)) =>
              (pc' = "done" /\ error' = "P1PacketError" /\ packet' = <<>>
               /\ published' = published)
       /\ (pc' = "extract" /\ pc # "extract") => pc = "validate"
       /\ (packet' # <<>> /\ packet = <<>>) => pc = "extract"]_vars

\* C4 witness: a record was created from a frame whose checksum digits match
C4_Witness ==
    /\ pc = "send"
    /\ packet # <<>>
    /\ Signed(datagram)
    /\ ChecksumMatches(datagram)

\* C5: no failure of acquiring or parsing one frame ends the acquisition loop.
C5_FrameFailureNotFatal == pc = "done" => error \notin FrameErrors

\* C6: a frame handed to the parser is the concatenation of one header line,
\* then body lines only, then one trailer line; nothing read before the
\* header line is in it.
C6_FrameShape ==
    Handed =>
        /\ Len(parts) >= 2
        /\ datagram = Flatten(parts)
        /\ IsHeader(parts[1])
        /\ IsTrailer(parts[Len(parts)]) /\ ~IsHeader(parts[Len(parts)])
        /\ \A i \in 2..(Len(parts) - 1) : ~IsHeader(parts[i]) /\ ~IsTrailer(parts[i])

\* C6 witness: a frame with body lines was handed over after a call that read
\* lines before its header line
C6_Witness ==
    /\ pc = "validate"
    /\ Len(parts) >= 3
    /\ lines_read > Len(parts)

\* C7: the frame handed to the parser starts with the '/' byte, whatever
\* precedes the marker on the header line.
C7_FrameStartsAtMarker == Handed => datagram[1] = "/"

\* C8: a read that ends at its timeout ends the call with SmartMeterError.
C8_TimeoutIsError ==
    transport = "timeout" => (pc = "done" /\ error = "SmartMeterError")

\* C9: when readline() raises, the call ends with SmartMeterError, nothing
\* accumulated survives, no frame is returned, and nothing is read afterwards.
C9_TransportFailureEndsCall ==
    /\ [](transport = "raised" =>
            /\ pc = "done"
            /\ error = "SmartMeterError"
            /\ datagram = <<>>
            /\ parts = <<>>
            /\ lines_read = 0
            /\ ~startFound /\ ~endFound
            /\ packet = <<>>)
    /\ [][transport = "raised" => UNCHANGED vars]_vars

\* C9 witness: readline() raised after lines had been accumulated and a
\* frame had been published
C9_Witness ==
    /\ transport = "raised"
    /\ error = "SmartMeterError"
    /\ Len(published) = 1

\* C10: a frame without a trailer boundary is rejected by validate with
\* P1PacketError.
C10_NoBoundaryIsPacketError ==
    [][(pc = "validate" /\ Boundaries(datagram) = {}) =>
          (pc' = "done" /\ error' = "P1PacketError")]_vars

\* the bytes after the trailer marker of d are empty once stripped
Unsigned(d) == Boundaries(d) # {} /\ strip(Checksum(d)) = <<>>

\* C11: a frame whose bytes after the trailer marker '!' are empty once
\* whitespace is stripped passes validate without any checksum comparison and
\* without an exception, whatever its content: extraction is entered on the
\* same frame.
C11_UnsignedAccepted ==
    [][(pc = "validate" /\ Unsigned(datagram)) =>
          (pc' = "extract" /\ error' = "none" /\ datagram' = datagram
           /\ serialOpen')]_vars

\* C11 witness: extraction was entered on an unsigned frame that carries
\* data lines
C11_Witness ==
    /\ pc = "extract"
    /\ Unsigned(datagram)
    /\ Len(parts) >= 3

\* d passes validate: unsigned, or signed with the CRC-16 of its region
Valid(d) == Unsigned(d) \/ (Signed(d) /\ ChecksumMatches(d))

\* C12: start_monitor acquires, parses and hands off in strict sequence: a
\* record enters the hand-off only from the construction of a validated
\* frame, each hand-off publishes that one record once at the end of what
\* was published before, a frame that fails validation publishes nothing and
\* ends the loop, and read_one_packet is entered again only after the
\* hand-off of the previous record has returned.
C12_StrictSequence ==
    [][/\ (pc' = "send" /\ pc # "send") =>
              (pc = "extract" /\ Valid(datagram) /\ packet' = <<Keys(datagram)>>)
       /\ pc = "send" => pc' \in {"call", "done"}
       /\ published' # published =>
              /\ pc = "send" /\ pc' = "call"
              /\ published' = Append(published, Fields(packet[1]))
       /\ (pc = "send" /\ pc' = "call") => Len(published') = Len(published) + 1
       /\ (pc = "validate" /\ ~Valid(datagram)) =>
              (pc' = "done" /\ published' = published)
       /\ pc = "done" => published' = published
       /\ pc' = "call" => pc = "send"
       /\ (pc' = "read" /\ pc # "read") =>
              (pc = "call" /\ packet' = <<>> /\ lines_read' = 0)]_vars

\* C12 witness: two frames were acquired, parsed and handed off one after
\* the other
C12_Witness ==
    /\ pc = "call"
    /\ Len(published) = 2
    /\ packet # <<>>
    /\ published[2] = Fields(packet[1])

\* a call of read_one_packet is in progress or has returned its frame
InCall == pc \in {"read", "validate", "extract", "send"}

\* C13: every call of read_one_packet starts from empty accumulator, zero
\* counter and cleared flags, whatever earlier calls did, and what it holds
\* afterwards is made of lines read during that call only: the accumulated
\* lines are no more than the lines read in the call, the frame is their
\* concatenation and the flags are those the lines of this call set.
C13_FreshFrame ==
    /\ [][(pc' = "read" /\ pc # "read") =>
             /\ datagram' = <<>> /\ parts' = <<>>
             /\ lines_read' = 0
             /\ ~startFound' /\ ~endFound']_vars
    /\ [](InCall =>
             /\ Len(parts) <= lines_read
             /\ datagram = Flatten(parts)
             /\ startFound <=> (parts # <<>> /\ IsHeader(parts[1]))
             /\ endFound <=> \E i \in 1..Len(parts) :
                                 IsTrailer(parts[i]) /\ ~IsHeader(parts[i])
             /\ pc = "read" => ~(startFound /\ endFound))

\* C13 witness: a second call has returned a frame, after a first call whose
\* frame was published
C13_Witness ==
    /\ pc = "validate"
    /\ Len(published) = 1
    /\ lines_read = Len(parts)

\* C14: the record constructed from a validated frame with no line matching
\* the gas pattern has G = 0, and every record handed to the publisher
\* carries a G field.
C14_GasDefaultsToZero ==
    /\ [][(pc = "extract" /\ pc' = "send" /\ getGas(datagram) = None) =>
             packet'[1]["G"] = Some(0)]_vars
    /\ []((pc = "send" /\ getGas(datagram) = None) =>
             /\ packet[1]["G"] = Some(0)
             /\ "G" \in DOMAIN Fields(packet[1])
             /\ Fields(packet[1])["G"] = Some(0))
    /\ [](\A i \in 1..Len(published) : "G" \in DOMAIN published[i])

\* C14 witness: the record of a frame without a gas line was published with
\* G = 0
C14_Witness ==
    /\ pc = "call"
    /\ Len(published) >= 1
    /\ getGas(datagram) = None
    /\ published[Len(published)]["G"] = Some(0)

\* everything readline() returns in the model
AllReads == Lines \cup FramingLines \cup PartialReads

HasSlash(line) == \E i \in 1..Len(line) : line[i] = "/"

BeginsWithBang(line) == Len(line) >= 1 /\ line[1] = "!"

\* the step treats line as the claim classifies it
ClassifiedStep(line) ==
    IF HasSlash(line)
    THEN /\ datagram' = lstrip(line)
         /\ parts' = <<lstrip(line)>>
         /\ startFound' /\ ~endFound'
    ELSE IF BeginsWithBang(line)
    THEN /\ datagram' = datagram \o line
         /\ startFound' = startFound /\ endFound'
    ELSE /\ datagram' = datagram \o line
         /\ startFound' = startFound /\ endFound' = endFound

\* C15: a line read is a header when it contains '/' anywhere, else a
\* trailer when it begins with '!', else a body line; a header read at any
\* point replaces everything accumulated by the line from its marker on and
\* clears the trailer flag, so what is accumulated after a header starts at
\* the most recent header line and holds no other header.
C15_HeaderRestarts ==
    /\ [][(pc = "read" /\ pc' # "done") =>
             \E line \in AllReads : ClassifiedStep(line)]_vars
    /\ []((InCall /\ startFound) =>
             /\ HasSlash(parts[1])
             /\ \A i \in 2..Len(parts) : ~HasSlash(parts[i])
             /\ SubSeq(datagram, 1, Len(parts[1])) = parts[1])

\* C15 witness: a header line that begins with '!' was read as the third
\* line or later and is all that is accumulated
C15_Witness ==
    /\ pc = "read"
    /\ lines_read >= 3
    /\ startFound /\ ~endFound
    /\ datagram = HeaderBang

\* C16: read_one_packet returns on the first trailer line that follows a
\* header with no header in between: it is reading exactly while one of the
\* flags is false and returns in the step that makes both true; the frame
\* is the concatenation, in order, of the stripped header line, the body
\* lines after it and that trailer line, which is the line read last; no
\* line is read once the frame is returned.
C16_ReturnsOnFirstTrailer ==
    /\ [](pc = "read" => (~startFound \/ ~endFound))
    /\ [](Handed =>
             /\ startFound /\ endFound
             /\ datagram = Flatten(parts)
             /\ HasSlash(parts[1]) /\ parts[1] = lstrip(parts[1])
             /\ BeginsWithBang(parts[Len(parts)])
             /\ \A i \in 2..(Len(parts) - 1) : ~BeginsWithBang(parts[i]))
    /\ [][/\ (pc = "read" /\ startFound' /\ endFound') => pc' = "validate"
          /\ (pc' = "validate" /\ pc # "validate") =>
                 /\ pc = "read"
                 /\ lines_read' = lines_read + 1
                 /\ datagram' = datagram \o parts'[Len(parts')]
          /\ (Handed /\ pc' # "done") =>
                 (lines_read' = lines_read /\ datagram' = datagram)]_vars

\* C16 witness: a call that read a header, six body lines and the trailer,
\* eight lines in all, returned that frame and its record was constructed
C16_Witness ==
    /\ pc = "send"
    /\ Len(parts) = 8
    /\ lines_read = 8

\* position p of d holds a '!' that directly follows CR LF
BoundaryAt(d, p) == p >= 3 /\ d[p - 2] = "\r" /\ d[p - 1] = "\n" /\ d[p] = "!"

\* the checksum validate is given when the boundary used is p
GivenAfter(d, p) == strip(SubSeq(d, p + 1, Len(d)))

\* C17: validate checks the frame against the last '!' that follows a line
\* break: the checksummed region is the frame from its first byte up to and
\* including that '!', the given checksum is everything after it, and the
\* frame passes exactly when that checksum is empty once stripped or is the
\* hexadecimal CRC-16 of that region.
C17_LastBoundaryUsed ==
    [][pc = "validate" =>
          \A p \in 1..Len(datagram) :
              (BoundaryAt(datagram, p)
               /\ \A q \in (p + 1)..Len(datagram) : ~BoundaryAt(datagram, q)) =>
                  LET region == SubSeq(datagram, 1, p)
                      given  == GivenAfter(datagram, p)
                      number == ParseHex(given)
                  IN  /\ pc' = "extract" <=>
                             (given = <<>> \/ (number # None /\ number[1] = crc16(region)))
                      /\ (given # <<>> /\ number = None) => error' = "ValueError"
                      /\ (given # <<>> /\ number # None /\ number[1] # crc16(region)) =>
                             error' = "P1PacketError"]_vars

\* C17 witness: a frame with two trailer lines, signed over everything up to
\* the '!' of the second, was accepted
C17_Witness ==
    /\ pc = "extract"
    /\ Cardinality(Boundaries(datagram)) = 2
    /\ GivenAfter(datagram, Len(datagram) - Len(TrailerDouble) + 1) = <<"0", "7", "4", "E">>

\* line ends with CR LF
Terminated(line) ==
    Len(line) >= 2 /\ line[Len(line) - 1] = "\r" /\ line[Len(line)] = "\n"

\* every line accumulated into the frame was delivered with its CR LF
AllTerminated == \A i \in 1..Len(parts) : Terminated(parts[i])

\* the positions of d where validate finds a trailer boundary
BoundarySet(d) == {p \in 1..Len(d) : BoundaryAt(d, p)}

\* C18: in a frame assembled from lines that all end with CR LF, validate
\* finds exactly one trailer boundary, at the first byte of the frame's last
\* line, and does not fail for want of a boundary; a frame without boundary,
\* and the failure it causes, occur only when an accumulated line was
\* delivered without its CR LF.
C18_OneBoundaryWhenTerminated ==
    /\ []((Handed /\ AllTerminated) =>
             BoundarySet(datagram) = {Len(datagram) - Len(parts[Len(parts)]) + 1})
    /\ []((Handed /\ BoundarySet(datagram) = {}) => ~AllTerminated)
    /\ [][/\ (pc = "validate" /\ AllTerminated) => error' # "UnboundLocalError"
          /\ (error' = "UnboundLocalError" /\ error = "none") =>
                 (pc = "validate" /\ ~AllTerminated)]_vars

\* C18 witness: a frame of CR LF terminated lines, body lines among them,
\* passed validate on its one boundary
C18_Witness ==
    /\ pc = "extract"
    /\ AllTerminated
    /\ Len(parts) >= 3
    /\ Cardinality(BoundarySet(datagram)) = 1

\* C19: when start_monitor has left its loop, for whatever error, the serial
\* port is closed; while the loop is running the port is open, and it is
\* closed only in the step in which an error ends the loop.
C19_DisconnectOnExit ==
    /\ [](pc = "done" => (~serialOpen /\ error # "none"))
    /\ [](pc # "done" => (serialOpen /\ error = "none"))
    /\ [][(serialOpen /\ ~serialOpen') => (pc # "done" /\ pc' = "done")]_vars

\* C19 witness: the publisher failed on the second record and the port is
\* closed
C19_Witness ==
    /\ pc = "done"
    /\ error = "InfluxDBError"
    /\ ~serialOpen
    /\ Len(published) = 1

====
